---- MODULE Spec2Model ----
(***************************************************************************)
(* Task orchestration and event streaming of the A2A request handler       *)
(* (DefaultA2ARequestHandler) together with the example agent executors    *)
(* that produce its events.  One request is handled at a time; inside a    *)
(* streaming request the producer (the executor hook) and the consumer     *)
(* (the handler's loop) interleave.                                        *)
(***************************************************************************)
EXTENDS Integers, Sequences, FiniteSets, TLC

(* ---------------------------------------------------------------------- *)
(* Bounds                                                                 *)
(* ---------------------------------------------------------------------- *)
MaxRequests == 2
MaxItems == 2
MaxWork == 3
MaxRacers == 2
MaxHistory == 1
MaxTurns == 4
MaxTools == 2

(* ---------------------------------------------------------------------- *)
(* Values                                                                 *)
(* ---------------------------------------------------------------------- *)
TaskIds == {"t1", "t2"}
NoId == "none"
Executors == {"weather", "airbnb", "adk"}
PartKinds == {"text", "nontext", "empty"}
ErrText == <<"boom">>
QueryErrText == <<"bad parts">>
Content == <<"content">>
UserText == <<"query">>
TerminalStates == {"completed", "canceled", "error"}

NoMsg == [mid |-> 0, role |-> "none", text |-> <<>>]
NoArtifact == [aid |-> 0, text |-> <<>>]
NoTask == [id |-> NoId, state |-> "none", msg |-> NoMsg, history |-> <<>>, artifacts |-> <<>>]
NoReq == [taskId |-> NoId, message |-> NoMsg, parts |-> "text"]

Message(n, r, t) == [mid |-> n, role |-> r, text |-> t]
Artifact(n, t) == [aid |-> n, text |-> t]

(* The four event variants carried on the queue, plus the error object a  *)
(* default hook may enqueue.                                              *)
TaskEvent(t) ==
    [type |-> "Task", taskId |-> t.id, state |-> t.state, msg |-> t.msg,
     final |-> FALSE, artifact |-> NoArtifact, task |-> t,
     append |-> FALSE, lastChunk |-> FALSE]
StatusEvent(tid, s, m, f) ==
    [type |-> "TaskStatusUpdateEvent", taskId |-> tid, state |-> s, msg |-> m,
     final |-> f, artifact |-> NoArtifact, task |-> NoTask,
     append |-> FALSE, lastChunk |-> FALSE]
ArtifactEventAppends(tid, a) ==
    [type |-> "TaskArtifactUpdateEvent", taskId |-> tid, state |-> "none", msg |-> NoMsg,
     final |-> FALSE, artifact |-> a, task |-> NoTask,
     append |-> TRUE, lastChunk |-> FALSE]
ArtifactEvent(tid, a) ==
    [type |-> "TaskArtifactUpdateEvent", taskId |-> tid, state |-> "none", msg |-> NoMsg,
     final |-> FALSE, artifact |-> a, task |-> NoTask,
     append |-> FALSE, lastChunk |-> TRUE]
NoEvent ==
    [type |-> "none", taskId |-> NoId, state |-> "none", msg |-> NoMsg,
     final |-> FALSE, artifact |-> NoArtifact, task |-> NoTask,
     append |-> FALSE, lastChunk |-> FALSE]

IsPrefix(s, t) == Len(s) <= Len(t) /\ SubSeq(t, 1, Len(s)) = s

Response(ev) == [kind |-> "success", error |-> "none", result |-> ev]
ErrorResponse(e) == [kind |-> "error", error |-> e, result |-> NoEvent]
NoResponse == [kind |-> "none", error |-> "none", result |-> NoEvent]

VARIABLES
    store,       \* Task Store: task id -> persisted Task (NoTask when absent)
    executor,    \* which AgentExecutor the handler was constructed with
    nreq,        \* number of requests started so far
    nextId,      \* next fresh uuid4 (message ids, artifact ids)
    op,          \* operation of the current (or last) request
    pc,          \* position of the handler inside that operation
    req,         \* the request: taskId, message and the kind of its parts
    task,        \* the handler's local `task` (NoTask is None)
    queue,       \* the request's EventQueue: events enqueued and not yet dequeued
    closed,      \* the queue has been closed
    enqueued,    \* every event enqueued during this request, in enqueue order
    event,       \* the event the consumer holds between dequeue and yield
    responses,   \* the responses yielded or returned to the caller, in order
    prod,        \* executor hook: none, running, done, raised, cancelled
    ppc,         \* position inside the executor hook
    hook,        \* which executor hook this request invoked (none if not invoked)
    etask,       \* the executor's local `task`
    nitems,      \* items the agents have yielded so far, over all requests
    item,        \* kind of the last item the agent yielded in this request
    perr,        \* text of the exception raised inside the hook (<<>> if none)
    cancelReq,   \* producer_task.cancel() was called and not yet delivered
    exitPath,    \* how the consumer loop ended: none, normal, raised, closed
    outcome,     \* how the handler call ended: none, returned, raised, closed
    awaited,     \* the cleanup awaited the producer task
    log,         \* the log records the cleanup wrote
    store0,      \* the Task Store as it was when the request started
    race,        \* concurrent requests for one task: their load, append, save
    route,       \* RoutingAgent: the session state and the payloads it sent
    life         \* app_lifespan: its position, client, context and outcome

(* The variables of the request handler and its executor.                 *)
handlerVars == <<store, executor, nreq, nextId, op, pc, req, task, queue, closed,
                 enqueued, event, responses, prod, ppc, hook, etask, nitems, item,
                 perr, cancelReq, exitPath, outcome, awaited, log, store0>>

(* The components modelled beside the request handler.                    *)
otherVars == <<race, route, life>>

vars == <<handlerVars, otherVars>>

(* ---------------------------------------------------------------------- *)
(* Request handler helpers                                                *)
(* ---------------------------------------------------------------------- *)

(* _append_message_to_task: append to the history (or start it), the save *)
(* is done by the caller of this operator.                                *)
AppendMessageReplaces(t, m) == [t EXCEPT !.history = <<m>>]
AppendMessageToTask(t, m) ==
    IF t.history # <<>>
    THEN [t EXCEPT !.history = Append(@, m)]
    ELSE [t EXCEPT !.history = <<m>>]

(* `if not task` after task_store.get: the id is absent from the store.   *)
TaskMissingNever(t) == FALSE
TaskMissing(t) == t = NoTask

(* build_error_response(request.id, A2AError(TaskNotFoundError()), ...)   *)
TaskNotFoundAsInvalid == ErrorResponse("InvalidAgentResponse")
TaskNotFoundResponse == ErrorResponse("TaskNotFound")

(* build_error_response(request.id, A2AError(UnsupportedOperationError()), *)
(* ...)                                                                   *)
UnsupportedAsNotFound == ErrorResponse("TaskNotFound")
UnsupportedOperationResponse == ErrorResponse("UnsupportedOperation")

(* task_manager.get_task(): None without a task id, else the stored task. *)
GetTask(st, tid) == IF tid = NoId THEN NoTask ELSE st[tid]

(* prepare_response_object: a success response around a result of an     *)
(* allowed type, an error response around anything else.                  *)
PrepareResponseObject(ev, types) ==
    IF ev.type \in types THEN Response(ev) ELSE ErrorResponse("InvalidAgentResponse")

StreamTypes == {"Task", "Message", "TaskArtifactUpdateEvent", "TaskStatusUpdateEvent"}

(* ---------------------------------------------------------------------- *)
(* Task Manager and Event Consumer                                        *)
(* ---------------------------------------------------------------------- *)
EnsureTask(st, tid) ==
    IF st[tid] # NoTask THEN st[tid]
    ELSE [NoTask EXCEPT !.id = tid, !.state = "submitted"]

(* Apply one event to the task state and persist the result.              *)
ProcessEvent(st, ev) ==
    CASE ev.type = "Task" -> [st EXCEPT ![ev.taskId] = ev.task]
      [] ev.type = "TaskStatusUpdateEvent" ->
            [st EXCEPT ![ev.taskId] =
                [EnsureTask(st, ev.taskId) EXCEPT
                    !.state = ev.state,
                    !.msg = ev.msg,
                    !.history = IF ev.msg # NoMsg THEN Append(@, ev.msg) ELSE @]]
      [] ev.type = "TaskArtifactUpdateEvent" ->
            [st EXCEPT ![ev.taskId] =
                [EnsureTask(st, ev.taskId) EXCEPT !.artifacts = Append(@, ev.artifact)]]
      [] OTHER -> st

(* consume_one returns the resulting Task (or the Message itself).        *)
ConsumeOneResult(st, ev) ==
    IF ev.type \in {"Message", "none"} THEN ev ELSE TaskEvent(st[ev.taskId])

(* consume_all stops after a final status update.                         *)
IsFinalEvent(ev) == ev.type = "TaskStatusUpdateEvent" /\ ev.final

(* ---------------------------------------------------------------------- *)
(* Agent executors                                                        *)
(* ---------------------------------------------------------------------- *)
ItemKinds == {"working", "input", "complete", "both"}
IsTaskComplete(k) == k \in {"complete", "both"}
RequireUserInput(k) == k \in {"input", "both"}

FreshIds(st) == {i \in TaskIds : st[i] = NoTask}
FreshId(st) == CHOOSE i \in FreshIds(st) : TRUE

(* create_task_obj / new_task: a submitted task holding the message.      *)
CreateTaskObj(r, st) ==
    [id |-> IF r.taskId # NoId THEN r.taskId ELSE FreshId(st),
     state |-> "submitted", msg |-> NoMsg,
     history |-> <<r.message>>, artifacts |-> <<>>]

(* _get_user_query raises on a message without parts or with a non-text   *)
(* first part; the adk executor reads the input through the context.      *)
GetUserQueryRaises(ex, parts) == ex \in {"weather", "airbnb"} /\ parts # "text"

(* update_task_with_agent_response *)
UpdateTaskAnswersInMessage(t, k, n) ==
    IF RequireUserInput(k)
    THEN [t EXCEPT !.state = "input_required",
                   !.msg = Message(n, "agent", Content),
                   !.history = Append(@, Message(n, "agent", Content))]
    ELSE [t EXCEPT !.state = "completed",
                   !.msg = Message(n, "agent", Content)]
UpdateTaskWithAgentResponse(t, k, n) ==
    IF RequireUserInput(k)
    THEN [t EXCEPT !.state = "input_required",
                   !.msg = Message(n, "agent", Content),
                   !.history = Append(@, Message(n, "agent", Content))]
    ELSE [t EXCEPT !.state = "completed",
                   !.msg = NoMsg,
                   !.artifacts = Append(@, Artifact(n, Content))]

(* process_streaming_agent_response: the events it returns that are not   *)
(* None, artifact event first, as the executors enqueue them.             *)
ProcessStreamingCompleteFirst(t, k, n) ==
    IF IsTaskComplete(k)
    THEN <<ArtifactEvent(t.id, Artifact(n, Content)),
           StatusEvent(t.id, "completed", NoMsg, TRUE)>>
    ELSE IF RequireUserInput(k)
    THEN <<StatusEvent(t.id, "input_required", Message(n, "agent", Content), TRUE)>>
    ELSE <<StatusEvent(t.id, "working", Message(n, "agent", Content), FALSE)>>
ProcessStreamingStatusOnly(t, k, n) ==
    IF ~IsTaskComplete(k) /\ ~RequireUserInput(k)
    THEN <<StatusEvent(t.id, "working", Message(n, "agent", Content), FALSE)>>
    ELSE IF RequireUserInput(k)
    THEN <<StatusEvent(t.id, "input_required", Message(n, "agent", Content), TRUE)>>
    ELSE <<StatusEvent(t.id, "completed", NoMsg, TRUE)>>
ProcessStreamingAgentResponse(t, k, n) ==
    IF ~IsTaskComplete(k) /\ ~RequireUserInput(k)
    THEN <<StatusEvent(t.id, "working", Message(n, "agent", Content), FALSE)>>
    ELSE IF RequireUserInput(k)
    THEN <<StatusEvent(t.id, "input_required", Message(n, "agent", Content), TRUE)>>
    ELSE <<ArtifactEvent(t.id, Artifact(n, Content)),
           StatusEvent(t.id, "completed", NoMsg, TRUE)>>

(* The events AirbnbAgentExecutor.execute enqueues for one agent item.    *)
ExecuteEvents(t, k, n) ==
    IF IsTaskComplete(k)
    THEN <<ArtifactEvent(t.id, Artifact(n, Content)),
           StatusEvent(t.id, "completed", NoMsg, TRUE)>>
    ELSE IF RequireUserInput(k)
    THEN <<StatusEvent(t.id, "input_required", Message(n, "agent", Content), TRUE)>>
    ELSE <<StatusEvent(t.id, "working", Message(n, "agent", Content), FALSE)>>

StreamItemEvents(ex, t, k, n) ==
    IF ex = "adk" THEN ExecuteEvents(t, k, n) ELSE ProcessStreamingAgentResponse(t, k, n)

(* The except branches: the task moves to "error" and its status message  *)
(* carries a prefixed copy of the exception text.                         *)
SendErrorText(e) == <<"An internal error occurred:">> \o e
StreamErrorTextGeneric(e) == <<"An internal error occurred during streaming:">>
StreamErrorText(e) == <<"An internal error occurred during streaming:">> \o e
ErrorTask(t, text, n) ==
    [t EXCEPT !.state = "error",
              !.msg = IF t.msg # NoMsg THEN [t.msg EXCEPT !.text = text]
                      ELSE Message(n, "agent", text)]

(* ---------------------------------------------------------------------- *)
(* Concurrent send / stream requests that name the same existing task     *)
(* ---------------------------------------------------------------------- *)

(* Each request loads the task (task_manager.get_task), appends its       *)
(* message to the loaded task's history and saves the task                *)
(* (_append_message_to_task).  The handler takes no lock; every await is  *)
(* a point where the other request may run.  The Task Store either hands  *)
(* out the stored task object itself or a copy of it.                     *)
Racers == 1 .. MaxRacers
RaceTaskId == "t1"
RacerMessage(q) == Message(q, "user", UserText)
InitialHistory(h) == [i \in 1 .. h |-> Message(100 + i, "user", UserText)]
StoredTask(h) ==
    [id |-> RaceTaskId, state |-> "input_required", msg |-> NoMsg,
     history |-> InitialHistory(h), artifacts |-> <<>>]

RaceIdle ==
    [shared |-> FALSE, stored |-> NoTask, initial |-> <<>>,
     rpc |-> [q \in Racers |-> "done"],
     local |-> [q \in Racers |-> NoTask],
     loadAt |-> [q \in Racers |-> 0],
     saves |-> <<>>]

RaceInit ==
    \E sh \in BOOLEAN, h \in 0 .. MaxHistory :
        race = [RaceIdle EXCEPT !.shared = sh,
                                !.stored = StoredTask(h),
                                !.initial = InitialHistory(h),
                                !.rpc = [q \in Racers |-> "start"]]

(* task_manager.get_task(): the request now holds the task.               *)
RaceLoad(q) ==
    /\ race.rpc[q] = "start"
    /\ race' = [race EXCEPT !.rpc[q] = "loaded",
                            !.local[q] = race.stored,
                            !.loadAt[q] = Len(race.saves)]
    /\ UNCHANGED <<handlerVars, route, life>>

(* _append_message_to_task, the append: it changes the object the request *)
(* holds, which is the stored object when the store hands that out.       *)
RaceAppendSkipped(q) ==
    /\ race.rpc[q] = "loaded"
    /\ race' = [race EXCEPT !.rpc[q] = "appended"]
    /\ UNCHANGED <<handlerVars, route, life>>
RaceAppend(q) ==
    /\ race.rpc[q] = "loaded"
    /\ race' = IF race.shared
               THEN [race EXCEPT !.rpc[q] = "appended",
                                 !.stored = AppendMessageToTask(@, RacerMessage(q))]
               ELSE [race EXCEPT !.rpc[q] = "appended",
                                 !.local[q] = AppendMessageToTask(@, RacerMessage(q))]
    /\ UNCHANGED <<handlerVars, route, life>>

(* _append_message_to_task, the save: the store now holds what the        *)
(* request holds.                                                         *)
RaceSave(q) ==
    /\ race.rpc[q] = "appended"
    /\ race' = [race EXCEPT !.rpc[q] = "saved",
                            !.stored = IF race.shared THEN @ ELSE race.local[q],
                            !.saves = Append(@, q)]
    /\ UNCHANGED <<handlerVars, route, life>>

RaceNext == \E q \in Racers : RaceLoad(q) \/ RaceAppend(q) \/ RaceSave(q)

(* ---------------------------------------------------------------------- *)
(* RoutingAgent: the session state and the tasks it sends                 *)
(* ---------------------------------------------------------------------- *)

(* The session is created with an empty state (routing_agent_demo).  The  *)
(* state keys are session_id, session_active, active_agent, task_id and   *)
(* context_id; 0 and "none" stand for an absent key.  uuid counts the     *)
(* uuid4 values drawn, each one new.                                      *)
RemoteAgents == {"weather", "airbnb"}
AgentNames == RemoteAgents \cup {"unknown"}
SendResponses == {"task", "message", "error"}

RouteIdle ==
    [session_id |-> 0, session_active |-> FALSE, active_agent |-> "none",
     task_id |-> 0, context_id |-> 0, uuid |-> 0, calls |-> 0,
     phase |-> "off", result |-> "none", sent |-> <<>>]

RouteInit == route = [RouteIdle EXCEPT !.phase = "idle"]

(* before_model_callback, run before every model call.                    *)
BeforeModelCallback ==
    /\ route.phase \in {"idle", "tool_done"}
    /\ route.calls < MaxTurns
    /\ LET fresh == ~route.session_active /\ route.session_id = 0
       IN  route' = [route EXCEPT
               !.session_id = IF fresh THEN route.uuid + 1 ELSE @,
               !.uuid = IF fresh THEN @ + 1 ELSE @,
               !.session_active = TRUE,
               !.calls = @ + 1,
               !.phase = "model"]
    /\ UNCHANGED <<handlerVars, race, life>>

(* The ids send_task_new puts in its payload: the state's if the key is   *)
(* present, a new uuid4 otherwise.                                        *)
PayloadTaskId(r) == IF r.task_id # 0 THEN r.task_id ELSE r.uuid + 1
PayloadContextId(r) == IF r.context_id # 0 THEN r.context_id ELSE r.uuid + 2
PayloadMessageId(r) == r.uuid + 3

(* What send_task_new returns for the remote agent's response.            *)
SendResult(k) == IF k = "task" THEN "parts" ELSE "aborted"

(* send_task_new(agent_name, task), the tool the model calls.             *)
SendTaskNew(a, k) ==
    /\ route.phase = "model"
    /\ IF a \notin RemoteAgents
       THEN route' = [route EXCEPT !.phase = "idle", !.result = "raised"]
       ELSE route' = [route EXCEPT
               !.active_agent = a,
               !.uuid = @ + 3,
               !.sent = Append(@, [agent |-> a,
                                   taskId |-> PayloadTaskId(route),
                                   contextId |-> PayloadContextId(route),
                                   messageId |-> PayloadMessageId(route),
                                   sessionId |-> route.session_id]),
               !.phase = "tool_done",
               !.result = SendResult(k)]
    /\ UNCHANGED <<handlerVars, race, life>>

(* The model answers the user without calling the tool; the turn ends.    *)
ModelAnswers ==
    /\ route.phase = "model"
    /\ route' = [route EXCEPT !.phase = "idle"]
    /\ UNCHANGED <<handlerVars, race, life>>

RouteNext ==
    \/ BeforeModelCallback
    \/ \E a \in AgentNames, k \in SendResponses : SendTaskNew(a, k)
    \/ ModelAnswers

(* ---------------------------------------------------------------------- *)
(* app_lifespan: the MCP client and the shared application context        *)
(* ---------------------------------------------------------------------- *)

(* Two variants: the weather agent's constructs the client before its try *)
(* block and enters it; the airbnb agent's (a2a-mcp-app2) constructs it   *)
(* inside the try block and never enters it.  pending is the exception in *)
(* flight, origin the outcome with which the body was left.               *)
LifeVariants == {"weather", "mcp2"}
Outcomes == {"none", "exception", "cancelled"}

LifeIdle ==
    [variant |-> "weather", lpc |-> "off", client |-> FALSE, created |-> FALSE,
     ctx |-> {}, tools |-> 0, pending |-> "none", origin |-> "none",
     exits |-> 0, exitRaised |-> FALSE, result |-> "none"]

LifeInit == \E v \in LifeVariants : life = [LifeIdle EXCEPT !.variant = v, !.lpc = "start"]

(* The body is left with an exception: the except clause re-raises it and *)
(* the finally clause runs.                                               *)
LeaveBody(l, e) == [l EXCEPT !.lpc = "finally", !.pending = e, !.origin = e]

(* MultiServerMCPClient(SERVER_CONFIGS).                                  *)
LifeConstruct(ok) ==
    /\ life.lpc = "start"
    /\ life' = IF ok
               THEN [life EXCEPT !.lpc = "constructed",
                                 !.client = (life.variant = "mcp2"),
                                 !.created = (life.variant = "mcp2")]
               ELSE IF life.variant = "weather"
                    THEN [life EXCEPT !.lpc = "done", !.origin = "exception",
                                      !.result = "exception"]
                    ELSE LeaveBody(life, "exception")
    /\ UNCHANGED <<handlerVars, race, route>>

(* active_client = await mcp_client_manager.__aenter__() (weather only).  *)
LifeEnter(ok) ==
    /\ life.lpc = "constructed"
    /\ life.variant = "weather"
    /\ life' = IF ok
               THEN [life EXCEPT !.lpc = "entered", !.client = TRUE, !.created = TRUE,
                                 !.ctx = @ \cup {"mcp_client"}]
               ELSE LeaveBody(life, "exception")
    /\ UNCHANGED <<handlerVars, race, route>>

(* get_tools(), then the yield: the application runs.                     *)
LifeGetTools(ok, n) ==
    /\ life.lpc = IF life.variant = "weather" THEN "entered" ELSE "constructed"
    /\ life' = IF ok
               THEN [life EXCEPT !.lpc = "running", !.tools = n,
                                 !.ctx = @ \cup {"mcp_tools"}]
               ELSE LeaveBody(life, "exception")
    /\ UNCHANGED <<handlerVars, race, route>>

(* The application ends: normal shutdown, an exception, a cancellation.   *)
LifeAppEnds(e) ==
    /\ life.lpc = "running"
    /\ life' = LeaveBody(life, e)
    /\ UNCHANGED <<handlerVars, race, route>>

(* finally: the client's __aexit__ is called if the client variable is    *)
(* set; an Exception it raises is printed and dropped.                    *)
CallsExitAlways(l) == TRUE
CallsExit(l) == l.client
AfterExitReplaces(p, raised) == IF raised THEN "exception" ELSE p
AfterExit(p, raised) == p

LifeExit(raised) ==
    /\ life.lpc = "finally"
    /\ life' = IF CallsExit(life)
               THEN [life EXCEPT !.lpc = "clearing", !.exits = @ + 1,
                                 !.exitRaised = raised,
                                 !.pending = AfterExit(@, raised)]
               ELSE [life EXCEPT !.lpc = "clearing"]
    /\ UNCHANGED <<handlerVars, race, route>>

(* context.clear(), then the pending exception, if any, goes on.          *)
LifeClear ==
    /\ life.lpc = "clearing"
    /\ life' = [life EXCEPT !.lpc = "done", !.ctx = {},
                            !.result = IF life.pending = "none" THEN "returned"
                                       ELSE life.pending]
    /\ UNCHANGED <<handlerVars, race, route>>

LifeNext ==
    \/ \E ok \in BOOLEAN : LifeConstruct(ok)
    \/ \E ok \in BOOLEAN : LifeEnter(ok)
    \/ \E ok \in BOOLEAN, n \in 0 .. MaxTools : LifeGetTools(ok, n)
    \/ \E e \in Outcomes : LifeAppEnds(e)
    \/ \E raised \in BOOLEAN : LifeExit(raised)
    \/ LifeClear

(* ---------------------------------------------------------------------- *)
(* Initial state: a handler constructed over an empty in-memory store     *)
(* ---------------------------------------------------------------------- *)
HandlerInit ==
    /\ store = [i \in TaskIds |-> NoTask]
    /\ executor \in Executors
    /\ nreq = 0
    /\ nextId = 1
    /\ op = "none"
    /\ pc = "idle"
    /\ req = NoReq
    /\ task = NoTask
    /\ queue = <<>>
    /\ closed = FALSE
    /\ enqueued = <<>>
    /\ event = NoEvent
    /\ responses = <<>>
    /\ prod = "none"
    /\ ppc = "none"
    /\ hook = "none"
    /\ etask = NoTask
    /\ nitems = 0
    /\ item = "none"
    /\ perr = <<>>
    /\ cancelReq = FALSE
    /\ exitPath = "none"
    /\ outcome = "none"
    /\ awaited = FALSE
    /\ log = <<>>
    /\ store0 = [i \in TaskIds |-> NoTask]

(* The request handler runs; the other components stay as they are.       *)
Init ==
    /\ HandlerInit
    /\ race = RaceIdle
    /\ route = RouteIdle
    /\ life = LifeIdle

(* The run is bounded in its requests, in the items the agents yield and  *)
(* in both together.                                                      *)
WorkLeft == nreq + nitems < MaxWork

(* A new request is taken when no request is being handled.               *)
Ready == pc \in {"idle", "ended"} /\ nreq < MaxRequests /\ WorkLeft

(* What every request starts from: a fresh queue, no producer state.  The  *)
(* count of agent items runs on: the bounds are on the whole run.         *)
StartRequest(o, r) ==
    /\ op' = o
    /\ req' = r
    /\ nreq' = nreq + 1
    /\ queue' = <<>>
    /\ closed' = FALSE
    /\ enqueued' = <<>>
    /\ event' = NoEvent
    /\ etask' = NoTask
    /\ nitems' = nitems
    /\ item' = "none"
    /\ perr' = <<>>
    /\ cancelReq' = FALSE
    /\ exitPath' = "none"
    /\ awaited' = FALSE
    /\ log' = <<>>
    /\ store0' = store
    /\ UNCHANGED <<executor, otherVars>>

(* The hook is not invoked: the call ends with the single response rs.    *)
EndWithout(rs) ==
    /\ responses' = rs
    /\ pc' = "ended"
    /\ outcome' = "returned"
    /\ prod' = "none"
    /\ ppc' = "none"
    /\ hook' = "none"

(* The hook h is invoked; the handler goes on at position p.              *)
InvokeHook(h, p) ==
    /\ responses' = <<>>
    /\ pc' = p
    /\ outcome' = "none"
    /\ prod' = "running"
    /\ ppc' = "start"
    /\ hook' = h

(* ---------------------------------------------------------------------- *)
(* Request handler: the operations                                        *)
(* ---------------------------------------------------------------------- *)
OnGetTask(tid) ==
    /\ Ready
    /\ StartRequest("get", [NoReq EXCEPT !.taskId = tid])
    /\ task' = store[tid]
    /\ IF TaskMissing(store[tid])
       THEN EndWithout(<<TaskNotFoundResponse>>)
       ELSE EndWithout(<<PrepareResponseObject(TaskEvent(store[tid]), {"Task"})>>)
    /\ UNCHANGED <<store, nextId>>

OnCancelTask(tid) ==
    /\ Ready
    /\ StartRequest("cancel", [NoReq EXCEPT !.taskId = tid])
    /\ task' = store[tid]
    /\ IF TaskMissing(store[tid])
       THEN EndWithout(<<TaskNotFoundResponse>>)
       ELSE InvokeHook("on_cancel", "await_hook")
    /\ UNCHANGED <<store, nextId>>

(* The common head of on_message_send and on_message_send_stream: load    *)
(* the task, append the incoming message to it and save it.               *)
LoadAndAppendNoSave(tid, m) ==
    /\ task' = IF GetTask(store, tid) # NoTask
               THEN AppendMessageToTask(GetTask(store, tid), m)
               ELSE NoTask
    /\ store' = store
LoadAndAppend(tid, m) ==
    /\ task' = IF GetTask(store, tid) # NoTask
               THEN AppendMessageToTask(GetTask(store, tid), m)
               ELSE NoTask
    /\ store' = IF GetTask(store, tid) # NoTask
                THEN [store EXCEPT ![tid] = AppendMessageToTask(GetTask(store, tid), m)]
                ELSE store

OnMessageSend(tid, parts) ==
    /\ Ready
    /\ tid = NoId => FreshIds(store) # {}
    /\ StartRequest("send", [taskId |-> tid, message |-> Message(nextId, "user", UserText),
                             parts |-> parts])
    /\ nextId' = nextId + 1
    /\ LoadAndAppend(tid, Message(nextId, "user", UserText))
    /\ InvokeHook("on_message_send", "await_hook")

OnMessageSendStream(tid, parts) ==
    /\ Ready
    /\ tid = NoId => FreshIds(store) # {}
    /\ StartRequest("stream", [taskId |-> tid, message |-> Message(nextId, "user", UserText),
                               parts |-> parts])
    /\ nextId' = nextId + 1
    /\ LoadAndAppend(tid, Message(nextId, "user", UserText))
    /\ InvokeHook("on_message_stream", "consume_all")

OnResubscribeToTask(tid) ==
    /\ Ready
    /\ StartRequest("resubscribe", [NoReq EXCEPT !.taskId = tid])
    /\ task' = store[tid]
    /\ IF TaskMissing(store[tid])
       THEN EndWithout(<<TaskNotFoundResponse>>)
       ELSE InvokeHook("on_resubscribe", "consume_all")
    /\ UNCHANGED <<store, nextId>>

(* The push-notification handlers answer without looking at anything.     *)
OnSetTaskPushNotificationConfig(tid) ==
    /\ Ready
    /\ StartRequest("set_push", [NoReq EXCEPT !.taskId = tid])
    /\ task' = NoTask
    /\ EndWithout(<<UnsupportedOperationResponse>>)
    /\ UNCHANGED <<store, nextId>>

OnGetTaskPushNotificationConfig(tid) ==
    /\ Ready
    /\ StartRequest("get_push", [NoReq EXCEPT !.taskId = tid])
    /\ task' = NoTask
    /\ EndWithout(<<UnsupportedOperationResponse>>)
    /\ UNCHANGED <<store, nextId>>

(* ---------------------------------------------------------------------- *)
(* Agent executor hooks (the producer)                                    *)
(* ---------------------------------------------------------------------- *)
HandlerVars == <<store, executor, nreq, op, pc, req, task, event, responses, hook,
                 exitPath, outcome, awaited, log, store0, otherVars>>

EnqueueEvents(evs) ==
    /\ queue' = queue \o evs
    /\ enqueued' = enqueued \o evs

Producing == prod = "running" /\ ~cancelReq

(* The hook runs agent.stream: on_message_stream, and execute for both    *)
(* send and stream.                                                       *)
StreamStyle == hook = "on_message_stream" \/ (hook = "on_message_send" /\ executor = "adk")
InvokeStyle == hook = "on_message_send" /\ executor \in {"weather", "airbnb"}

(* Head of on_message_send / on_message_stream / execute: read the query, *)
(* create the task when none was passed, enqueue it when streaming.       *)
ProdStartNoSnapshot ==
    /\ Producing
    /\ ppc = "start"
    /\ hook \in {"on_message_send", "on_message_stream"}
    /\ IF GetUserQueryRaises(executor, req.parts)
       THEN /\ prod' = "raised"
            /\ ppc' = "end"
            /\ perr' = QueryErrText
            /\ UNCHANGED <<etask, queue, enqueued>>
       ELSE /\ prod' = prod
            /\ ppc' = "agent"
            /\ perr' = perr
            /\ etask' = IF task = NoTask THEN CreateTaskObj(req, store) ELSE task
            /\ UNCHANGED <<queue, enqueued>>
    /\ UNCHANGED <<nitems, item, nextId, closed, cancelReq>>
    /\ UNCHANGED HandlerVars
ProdStart ==
    /\ Producing
    /\ ppc = "start"
    /\ hook \in {"on_message_send", "on_message_stream"}
    /\ IF GetUserQueryRaises(executor, req.parts)
       THEN /\ prod' = "raised"
            /\ ppc' = "end"
            /\ perr' = QueryErrText
            /\ UNCHANGED <<etask, queue, enqueued>>
       ELSE /\ prod' = prod
            /\ ppc' = "agent"
            /\ perr' = perr
            /\ etask' = IF task = NoTask THEN CreateTaskObj(req, store) ELSE task
            /\ IF task = NoTask /\ StreamStyle
               THEN EnqueueEvents(<<TaskEvent(CreateTaskObj(req, store))>>)
               ELSE UNCHANGED <<queue, enqueued>>
    /\ UNCHANGED <<nitems, item, nextId, closed, cancelReq>>
    /\ UNCHANGED HandlerVars

(* One item of agent.stream is turned into events and enqueued.           *)
ProdItem(k) ==
    /\ Producing
    /\ ppc = "agent"
    /\ StreamStyle
    /\ nitems < MaxItems
    /\ WorkLeft
    /\ EnqueueEvents(StreamItemEvents(executor, etask, k, nextId))
    /\ nextId' = nextId + 1
    /\ nitems' = nitems + 1
    /\ item' = k
    /\ UNCHANGED <<prod, ppc, etask, perr, closed, cancelReq>>
    /\ UNCHANGED HandlerVars

(* agent.stream raises: WeatherAgentExecutor.on_message_stream catches it *)
(* and enqueues the task in error state; the other hooks let it escape.   *)
ProdAgentRaise ==
    /\ Producing
    /\ ppc = "agent"
    /\ StreamStyle
    /\ ppc' = "end"
    /\ IF executor = "weather"
       THEN /\ etask' = ErrorTask(etask, StreamErrorText(ErrText), nextId)
            /\ EnqueueEvents(<<TaskEvent(ErrorTask(etask, StreamErrorText(ErrText), nextId))>>)
            /\ nextId' = IF etask.msg = NoMsg THEN nextId + 1 ELSE nextId
            /\ prod' = "done"
       ELSE /\ prod' = "raised"
            /\ UNCHANGED <<etask, queue, enqueued, nextId>>
    /\ perr' = ErrText
    /\ UNCHANGED <<nitems, item, closed, cancelReq>>
    /\ UNCHANGED HandlerVars

(* agent.stream is exhausted: the hook returns.                           *)
ProdAgentEnd ==
    /\ Producing
    /\ ppc = "agent"
    /\ StreamStyle
    /\ prod' = "done"
    /\ ppc' = "end"
    /\ UNCHANGED <<etask, nitems, item, perr, queue, enqueued, nextId, closed, cancelReq>>
    /\ UNCHANGED HandlerVars

(* on_message_send: agent.ainvoke answers, the task is updated and        *)
(* enqueued.                                                              *)
ProdInvoke(k) ==
    /\ Producing
    /\ ppc = "agent"
    /\ InvokeStyle
    /\ etask' = UpdateTaskWithAgentResponse(etask, k, nextId)
    /\ EnqueueEvents(<<TaskEvent(UpdateTaskWithAgentResponse(etask, k, nextId))>>)
    /\ nextId' = nextId + 1
    /\ prod' = "done"
    /\ ppc' = "end"
    /\ item' = k
    /\ UNCHANGED <<nitems, perr, closed, cancelReq>>
    /\ UNCHANGED HandlerVars

(* on_message_send: agent.ainvoke raises, the except branch enqueues the  *)
(* task in error state.                                                   *)
ProdInvokeRaise ==
    /\ Producing
    /\ ppc = "agent"
    /\ InvokeStyle
    /\ etask' = ErrorTask(etask, SendErrorText(ErrText), nextId)
    /\ EnqueueEvents(<<TaskEvent(ErrorTask(etask, SendErrorText(ErrText), nextId))>>)
    /\ nextId' = IF etask.msg = NoMsg THEN nextId + 1 ELSE nextId
    /\ prod' = "done"
    /\ ppc' = "end"
    /\ perr' = ErrText
    /\ UNCHANGED <<nitems, item, closed, cancelReq>>
    /\ UNCHANGED HandlerVars

(* AirbnbAgentExecutor.cancel raises unconditionally.                     *)
CancelNotSupported ==
    /\ Producing
    /\ ppc = "start"
    /\ hook = "on_cancel"
    /\ executor = "adk"
    /\ prod' = "raised"
    /\ ppc' = "end"
    /\ perr' = <<"cancel not supported">>
    /\ UNCHANGED <<etask, nitems, item, queue, enqueued, nextId, closed, cancelReq>>
    /\ UNCHANGED HandlerVars

(* The cancellation hook of the other executors: it enqueues the task as  *)
(* canceled, or in the terminal state it already has, and closes.         *)
CancelStates(t) == IF t.state \in TerminalStates THEN {t.state} ELSE {"canceled"}

BaseOnCancel(s) ==
    /\ Producing
    /\ ppc = "start"
    /\ hook = "on_cancel"
    /\ executor \in {"weather", "airbnb"}
    /\ s \in CancelStates(task)
    /\ etask' = [task EXCEPT !.state = s]
    /\ EnqueueEvents(<<TaskEvent([task EXCEPT !.state = s])>>)
    /\ closed' = TRUE
    /\ prod' = "done"
    /\ ppc' = "end"
    /\ UNCHANGED <<nitems, item, perr, nextId, cancelReq>>
    /\ UNCHANGED HandlerVars

(* The resubscription hook: it enqueues status and artifact events for a  *)
(* task that is still in progress, then returns or raises; the queue is   *)
(* closed when it ends.                                                   *)
BaseOnResubscribeItem(k) ==
    /\ Producing
    /\ hook = "on_resubscribe"
    /\ task.state \notin TerminalStates
    /\ nitems < MaxItems
    /\ WorkLeft
    /\ EnqueueEvents(ExecuteEvents(task, k, nextId))
    /\ nextId' = nextId + 1
    /\ nitems' = nitems + 1
    /\ item' = k
    /\ ppc' = "agent"
    /\ UNCHANGED <<prod, etask, perr, closed, cancelReq>>
    /\ UNCHANGED HandlerVars

BaseOnResubscribeEnd(raises) ==
    /\ Producing
    /\ hook = "on_resubscribe"
    /\ prod' = IF raises THEN "raised" ELSE "done"
    /\ perr' = IF raises THEN ErrText ELSE perr
    /\ ppc' = "end"
    /\ closed' = TRUE
    /\ UNCHANGED <<etask, nitems, item, queue, enqueued, nextId, cancelReq>>
    /\ UNCHANGED HandlerVars

(* producer_task.cancel() takes effect: CancelledError is raised in the   *)
(* hook at its current await, which no hook catches.                      *)
ProdCancelled ==
    /\ prod = "running"
    /\ cancelReq
    /\ prod' = "cancelled"
    /\ cancelReq' = FALSE
    /\ ppc' = "end"
    /\ closed' = IF hook = "on_resubscribe" THEN TRUE ELSE closed
    /\ UNCHANGED <<etask, nitems, item, perr, queue, enqueued, nextId>>
    /\ UNCHANGED HandlerVars

(* ---------------------------------------------------------------------- *)
(* Request handler: after the hook was invoked                            *)
(* ---------------------------------------------------------------------- *)
ProducerVars == <<prod, ppc, etask, nitems, item, perr, enqueued, nextId, closed>>
RequestVars == <<executor, nreq, op, req, task, hook, store0, otherVars>>

(* on_cancel_task / on_message_send await the hook before consuming.      *)
HookReturned ==
    /\ pc = "await_hook"
    /\ prod = "done"
    /\ pc' = "consume_one"
    /\ UNCHANGED <<store, queue, event, responses, exitPath, outcome, awaited, log, cancelReq>>
    /\ UNCHANGED ProducerVars
    /\ UNCHANGED RequestVars

(* The awaited hook raised: the exception leaves the handler call.        *)
HookRaised ==
    /\ pc = "await_hook"
    /\ prod = "raised"
    /\ pc' = "ended"
    /\ outcome' = "raised"
    /\ UNCHANGED <<store, queue, event, responses, exitPath, awaited, log, cancelReq>>
    /\ UNCHANGED ProducerVars
    /\ UNCHANGED RequestVars

ResultTypes(o) == IF o = "cancel" THEN {"Task"} ELSE {"Task", "Message"}

(* consumer.consume_one() and the response built from its result; on an   *)
(* open, empty queue the call stays suspended.                            *)
ConsumeOneTakesLast ==
    /\ pc = "consume_one"
    /\ queue # <<>>
    /\ event' = queue[Len(queue)]
    /\ queue' = SubSeq(queue, 1, Len(queue) - 1)
    /\ store' = ProcessEvent(store, queue[Len(queue)])
    /\ responses' = <<PrepareResponseObject(
                        ConsumeOneResult(ProcessEvent(store, queue[Len(queue)]),
                                         queue[Len(queue)]),
                        ResultTypes(op))>>
    /\ pc' = "ended"
    /\ outcome' = "returned"
    /\ UNCHANGED <<exitPath, awaited, log, cancelReq>>
    /\ UNCHANGED ProducerVars
    /\ UNCHANGED RequestVars
ConsumeOne ==
    /\ pc = "consume_one"
    /\ queue # <<>> \/ closed
    /\ IF queue # <<>>
       THEN /\ event' = Head(queue)
            /\ queue' = Tail(queue)
            /\ store' = ProcessEvent(store, Head(queue))
            /\ responses' = <<PrepareResponseObject(
                                ConsumeOneResult(ProcessEvent(store, Head(queue)), Head(queue)),
                                ResultTypes(op))>>
       ELSE /\ responses' = <<PrepareResponseObject(NoEvent, ResultTypes(op))>>
            /\ UNCHANGED <<event, queue, store>>
    /\ pc' = "ended"
    /\ outcome' = "returned"
    /\ UNCHANGED <<exitPath, awaited, log, cancelReq>>
    /\ UNCHANGED ProducerVars
    /\ UNCHANGED RequestVars

(* consume_all: dequeue the next event and apply it to the task.          *)
ConsumeAllDequeue ==
    /\ pc = "consume_all"
    /\ queue # <<>>
    /\ event' = Head(queue)
    /\ queue' = Tail(queue)
    /\ store' = ProcessEvent(store, Head(queue))
    /\ pc' = "yield"
    /\ UNCHANGED <<responses, exitPath, outcome, awaited, log, cancelReq>>
    /\ UNCHANGED ProducerVars
    /\ UNCHANGED RequestVars

(* consume_all: applying the event fails (the store write raises); the    *)
(* exception reaches the handler's loop.                                  *)
ConsumeAllFail ==
    /\ pc = "consume_all"
    /\ queue # <<>>
    /\ event' = Head(queue)
    /\ queue' = Tail(queue)
    /\ pc' = "cleanup"
    /\ exitPath' = "raised"
    /\ UNCHANGED <<store, responses, outcome, awaited, log, cancelReq>>
    /\ UNCHANGED ProducerVars
    /\ UNCHANGED RequestVars

(* consume_all: the queue is closed and drained, the loop ends.           *)
ConsumeAllClosed ==
    /\ pc = "consume_all"
    /\ queue = <<>>
    /\ closed
    /\ pc' = "cleanup"
    /\ exitPath' = "normal"
    /\ UNCHANGED <<store, queue, event, responses, outcome, awaited, log, cancelReq>>
    /\ UNCHANGED ProducerVars
    /\ UNCHANGED RequestVars

(* The body of the async for: the response for the event is yielded.      *)
YieldResponseSkipsArtifact(rs, ev) ==
    IF ev.type = "TaskArtifactUpdateEvent" THEN rs
    ELSE Append(rs, PrepareResponseObject(ev, StreamTypes))
YieldResponse(rs, ev) == Append(rs, PrepareResponseObject(ev, StreamTypes))

StreamYieldAfterProducer ==
    /\ pc = "yield"
    /\ prod # "running"
    /\ responses' = YieldResponse(responses, event)
    /\ pc' = "suspended"
    /\ UNCHANGED <<store, queue, event, exitPath, outcome, awaited, log, cancelReq>>
    /\ UNCHANGED ProducerVars
    /\ UNCHANGED RequestVars
StreamYield ==
    /\ pc = "yield"
    /\ responses' = YieldResponse(responses, event)
    /\ pc' = "suspended"
    /\ UNCHANGED <<store, queue, event, exitPath, outcome, awaited, log, cancelReq>>
    /\ UNCHANGED ProducerVars
    /\ UNCHANGED RequestVars

(* The caller asks for the next response: the loop goes on, or ends when  *)
(* the event just delivered was final.                                    *)
StreamResume ==
    /\ pc = "suspended"
    /\ IF IsFinalEvent(event)
       THEN pc' = "cleanup" /\ exitPath' = "normal"
       ELSE pc' = "consume_all" /\ exitPath' = exitPath
    /\ UNCHANGED <<store, queue, event, responses, outcome, awaited, log, cancelReq>>
    /\ UNCHANGED ProducerVars
    /\ UNCHANGED RequestVars

(* The caller closes the stream at a yield, or is cancelled while the     *)
(* handler waits for the next event.                                      *)
CallerDisconnect ==
    /\ pc \in {"suspended", "consume_all"}
    /\ pc' = "cleanup"
    /\ exitPath' = "closed"
    /\ UNCHANGED <<store, queue, event, responses, outcome, awaited, log, cancelReq>>
    /\ UNCHANGED ProducerVars
    /\ UNCHANGED RequestVars

(* The finally blocks.  `if not producer_task.done()` guards the cancel   *)
(* in both operations; on_message_send_stream has its await inside that   *)
(* if, on_resubscribe_to_task after it.                                   *)
NotDone(p) == p = "running"
AwaitsProducerNever(o, p) == FALSE
AwaitsProducer(o, p) == IF o = "stream" THEN NotDone(p) ELSE TRUE
ExitOutcomeSwallows(x) == "returned"
ExitOutcome(x) == IF x = "normal" THEN "returned" ELSE x

(* The except clauses around the await. *)
LogRecord(p, e) ==
    IF p = "cancelled" THEN <<[level |-> "info", text |-> <<"cancelled">>]>>
    ELSE IF p = "raised" THEN <<[level |-> "exception", text |-> e]>>
    ELSE <<>>

Cleanup ==
    /\ pc = "cleanup"
    /\ cancelReq' = NotDone(prod)
    /\ IF AwaitsProducer(op, prod)
       THEN pc' = "await_producer" /\ outcome' = outcome
       ELSE pc' = "ended" /\ outcome' = ExitOutcome(exitPath)
    /\ UNCHANGED <<store, queue, event, responses, exitPath, awaited, log>>
    /\ UNCHANGED ProducerVars
    /\ UNCHANGED RequestVars

AwaitProducer ==
    /\ pc = "await_producer"
    /\ prod \in {"done", "raised", "cancelled"}
    /\ awaited' = TRUE
    /\ log' = log \o LogRecord(prod, perr)
    /\ pc' = "ended"
    /\ outcome' = ExitOutcome(exitPath)
    /\ UNCHANGED <<store, queue, event, responses, exitPath, cancelReq>>
    /\ UNCHANGED ProducerVars
    /\ UNCHANGED RequestVars

(* ---------------------------------------------------------------------- *)
(* Specification                                                          *)
(* ---------------------------------------------------------------------- *)
Next ==
    \/ \E tid \in TaskIds : OnGetTask(tid)
    \/ \E tid \in TaskIds : OnCancelTask(tid)
    \/ \E tid \in TaskIds \cup {NoId}, parts \in PartKinds : OnMessageSend(tid, parts)
    \/ \E tid \in TaskIds \cup {NoId}, parts \in PartKinds : OnMessageSendStream(tid, parts)
    \/ \E tid \in TaskIds : OnResubscribeToTask(tid)
    \/ \E tid \in TaskIds : OnSetTaskPushNotificationConfig(tid)
    \/ \E tid \in TaskIds : OnGetTaskPushNotificationConfig(tid)
    \/ ProdStart
    \/ \E k \in ItemKinds : ProdItem(k)
    \/ ProdAgentRaise
    \/ ProdAgentEnd
    \/ \E k \in ItemKinds : ProdInvoke(k)
    \/ ProdInvokeRaise
    \/ CancelNotSupported
    \/ \E s \in TerminalStates : BaseOnCancel(s)
    \/ \E k \in ItemKinds : BaseOnResubscribeItem(k)
    \/ \E r \in BOOLEAN : BaseOnResubscribeEnd(r)
    \/ ProdCancelled
    \/ HookReturned
    \/ HookRaised
    \/ ConsumeOne
    \/ ConsumeAllDequeue
    \/ ConsumeAllFail
    \/ ConsumeAllClosed
    \/ StreamYield
    \/ StreamResume
    \/ CallerDisconnect
    \/ Cleanup
    \/ AwaitProducer

Spec == Init /\ [][Next]_vars

(* The other components, each run on its own beside an idle handler that  *)
(* wraps the weather executor.                                            *)
HandlerIdle == HandlerInit /\ executor = "weather"

InitRace == HandlerIdle /\ RaceInit /\ route = RouteIdle /\ life = LifeIdle
SpecRace == InitRace /\ [][RaceNext]_vars

InitRoute == HandlerIdle /\ race = RaceIdle /\ RouteInit /\ life = LifeIdle
SpecRoute == InitRoute /\ [][RouteNext]_vars

InitLife == HandlerIdle /\ race = RaceIdle /\ route = RouteIdle /\ LifeInit
SpecLife == InitLife /\ [][LifeNext]_vars

(* ---------------------------------------------------------------------- *)
(* Properties                                                             *)
(* ---------------------------------------------------------------------- *)
Streaming == op \in {"stream", "resubscribe"} /\ hook # "none"
AbsentAtStart == req.taskId \in TaskIds /\ store0[req.taskId] = NoTask
ExistedAtStart == req.taskId \in TaskIds /\ store0[req.taskId] # NoTask

(* C1: on_resubscribe_to_task with a task id absent from the Task Store    *)
(* yields exactly one response, the task-not-found error, and ends; it     *)
(* saves nothing, starts no producer and never invokes the resubscribe     *)
(* hook.                                                                   *)
C1_ResubscribeAbsentNotFound ==
    (op = "resubscribe" /\ AbsentAtStart) =>
        /\ pc = "ended"
        /\ outcome = "returned"
        /\ responses = <<ErrorResponse("TaskNotFound")>>
        /\ store = store0
        /\ prod = "none"
        /\ hook = "none"
        /\ enqueued = <<>>

C1_Witness ==
    /\ op = "resubscribe"
    /\ AbsentAtStart
    /\ pc = "ended"
    /\ \E t \in TaskIds : store[t] # NoTask

(* C8: on_cancel_task and on_get_task with a task id absent from the Task  *)
(* Store return the task-not-found error; the cancel hook is not invoked,  *)
(* no event queue is consumed and the Task Store is left unchanged.        *)
C8_CancelGetAbsentNotFound ==
    (op \in {"cancel", "get"} /\ AbsentAtStart) =>
        /\ pc = "ended"
        /\ outcome = "returned"
        /\ Len(responses) = 1
        /\ responses[1].kind = "error"
        /\ responses[1].error = "TaskNotFound"
        /\ hook = "none"
        /\ prod = "none"
        /\ event = NoEvent
        /\ store = store0

C8_Witness ==
    /\ op = "cancel"
    /\ AbsentAtStart
    /\ pc = "ended"
    /\ \E t \in TaskIds : store[t] # NoTask

(* The task a send or stream request is about: the id the message names,  *)
(* else the id of the task the executor created.                          *)
RequestTaskId == IF req.taskId # NoId THEN req.taskId ELSE etask.id

(* The consumer waits on an open, empty queue and the producer is over:   *)
(* nothing will arrive, only the caller going away ends the call.         *)
StreamStuck ==
    /\ pc = "consume_all"
    /\ queue = <<>>
    /\ ~closed
    /\ prod # "running"

(* C2: if the Agent Executor raises while producing for                    *)
(* on_message_send_stream, the stream terminates, the persisted task ends  *)
(* in the error state with a status message equal to the raised error's    *)
(* description, and the producer is no longer running when the call ends.  *)
C2_StreamRaiseEndsInError ==
    (op = "stream" /\ perr # <<>>) =>
        /\ ~StreamStuck
        /\ pc = "ended" =>
            /\ RequestTaskId \in TaskIds
            /\ store[RequestTaskId].state = "error"
            /\ store[RequestTaskId].msg.text = perr
            /\ prod # "running"

(* C3: once a task's persisted status state is completed, canceled or      *)
(* error, no later step of any send, stream, cancel or resubscribe request *)
(* changes its status state.                                               *)
C3_TerminalStateFrozen ==
    [][\A t \in TaskIds :
          store[t].state \in TerminalStates => store'[t].state = store[t].state]_vars

(* C4: on_cancel_task for an existing task whose executor has already      *)
(* completed it returns a response carrying a Task in the canceled state   *)
(* (or the task's current terminal state); it never waits forever in       *)
(* consume_one and never ends without a Task.                              *)
C4_CancelCompletedReturnsTask ==
    (op = "cancel" /\ ExistedAtStart /\ store0[req.taskId].state = "completed") =>
        /\ ~(pc = "consume_one" /\ queue = <<>> /\ ~closed)
        /\ pc = "ended" =>
            /\ outcome = "returned"
            /\ Len(responses) = 1
            /\ responses[1].kind = "success"
            /\ responses[1].result.type = "Task"
            /\ responses[1].result.state \in {"canceled", "completed"}

(* C5: for on_message_send_stream and on_resubscribe_to_task the responses *)
(* yielded to the caller correspond one-to-one and in the same order to    *)
(* the events the executor enqueued: until the stream ends no event is     *)
(* reordered, delivered twice, coalesced or skipped.                       *)
C5_StreamOrder ==
    Streaming =>
        /\ Len(responses) <= Len(enqueued)
        /\ \A i \in 1..Len(responses) : responses[i] = Response(enqueued[i])
        /\ pc \in {"consume_all", "suspended"} =>
              queue = SubSeq(enqueued, Len(responses) + 1, Len(enqueued))
        /\ pc = "yield" =>
              /\ Len(responses) < Len(enqueued)
              /\ event = enqueued[Len(responses) + 1]
              /\ queue = SubSeq(enqueued, Len(responses) + 2, Len(enqueued))

C5_Witness ==
    /\ Streaming
    /\ pc = "ended"
    /\ exitPath = "normal"
    /\ Len(responses) >= 3
    /\ responses[2].result.type = "TaskArtifactUpdateEvent"

(* C6: across any sequence of send, stream, cancel and resubscribe         *)
(* requests, one at a time, every save to the Task Store keeps what was    *)
(* persisted of the task: the persisted history and artifacts are prefixes *)
(* of the newly saved ones.                                                *)
C6_HistoryArtifactsAppendOnly ==
    [][\A t \in TaskIds :
          store[t] # NoTask =>
              /\ IsPrefix(store[t].history, store'[t].history)
              /\ IsPrefix(store[t].artifacts, store'[t].artifacts)]_vars

(* C7: when on_message_send or on_message_send_stream receives a message   *)
(* whose taskId is already in the Task Store, the message is appended as   *)
(* the last element of that task's history and saved under the same id,    *)
(* and the request creates no other task record.                           *)
C7_ExistingTaskMessageAppended ==
    (op \in {"send", "stream"} /\ ExistedAtStart) =>
        /\ task = AppendMessageToTask(store0[req.taskId], req.message)
        /\ task.history[Len(task.history)] = req.message
        /\ IsPrefix(Append(store0[req.taskId].history, req.message),
                    store[req.taskId].history)
        /\ enqueued = <<>> =>
              store[req.taskId].history = Append(store0[req.taskId].history, req.message)
        /\ store[req.taskId].id = req.taskId
        /\ \A t \in TaskIds \ {req.taskId} : store[t] = store0[t]

C7_Witness ==
    /\ op = "send"
    /\ ExistedAtStart
    /\ pc = "ended"
    /\ outcome = "returned"
    /\ Len(store0[req.taskId].history) >= 1
    /\ \E t \in TaskIds : store[t] = NoTask

(* C9: whenever an on_message_send_stream or on_resubscribe_to_task call   *)
(* ends, on every exit path (loop finished, consumer raised, caller closed *)
(* or cancelled the stream), the producer task it created is done: no      *)
(* producer keeps running after the handler call has ended.                *)
C9_NoOrphanProducer ==
    (Streaming /\ pc = "ended") =>
        /\ prod \in {"done", "raised", "cancelled"}
        /\ ~cancelReq

C9_Witness ==
    /\ op = "stream"
    /\ pc = "ended"
    /\ exitPath = "closed"
    /\ prod = "cancelled"
    /\ enqueued # <<>>

(* C10: in the cleanup after the consumer loop of on_message_send_stream   *)
(* and on_resubscribe_to_task the handler awaits the producer; a           *)
(* cancellation is swallowed and any other exception of the producer is    *)
(* caught and logged, on every exit path, also when the producer had       *)
(* finished with an exception before the cleanup started; no producer      *)
(* exception leaves the cleanup.                                           *)
C10_CleanupAwaitsAndLogs ==
    (Streaming /\ pc = "ended") =>
        /\ awaited
        /\ prod = "raised" => log = <<[level |-> "exception", text |-> perr]>>
        /\ prod = "cancelled" => log = <<[level |-> "info", text |-> <<"cancelled">>]>>
        /\ outcome = ExitOutcome(exitPath)

(* The hook of a send or cancel request raised (caught by the hook or     *)
(* not) and the call is over.                                             *)
AwaitedHookRaised == op \in {"send", "cancel"} /\ perr # <<>> /\ pc = "ended"

(* C11: if the Agent Executor raises during a non-streaming                *)
(* on_message_send, or during on_cancel, the handler call itself does not  *)
(* raise: the caller receives a well-formed response carrying the task in  *)
(* the error state with the exception text as its status message.          *)
C11_AwaitedHookRaiseGivesErrorTask ==
    AwaitedHookRaised =>
        /\ outcome = "returned"
        /\ Len(responses) = 1
        /\ responses[1].kind = "success"
        /\ responses[1].result.type = "Task"
        /\ responses[1].result.state = "error"
        /\ responses[1].result.msg.text = perr

(* C12: if applying an event to the Task Manager fails during a stream or  *)
(* resubscribe call, the exception leaves the handler call, and before it  *)
(* does a producer that was still running is cancelled and awaited: while  *)
(* the cancellation is pending the call has not ended, and at the end the  *)
(* producer is over and, when it was cancelled, was awaited.               *)
C12_ApplyFailurePropagatesAfterCleanup ==
    (Streaming /\ exitPath = "raised") =>
        /\ cancelReq => pc = "await_producer"
        /\ pc = "ended" =>
            /\ outcome = "raised"
            /\ prod \in {"done", "raised", "cancelled"}
            /\ prod = "cancelled" => awaited

C12_Witness ==
    /\ op = "stream"
    /\ exitPath = "raised"
    /\ pc = "ended"
    /\ prod = "cancelled"
    /\ awaited
    /\ responses # <<>>

(* C13: in on_message_send the Agent Executor runs concurrently with the   *)
(* handler's consume_one: once the hook is invoked the handler is at       *)
(* consume_one (or past it), it is never found waiting for the hook to     *)
(* return.                                                                 *)
C13_SendConsumesWithoutWaiting ==
    (op = "send" /\ hook = "on_message_send") => pc \in {"consume_one", "ended"}

(* The Task Store as the handler leaves it before it invokes the hook of  *)
(* a send or stream request.                                              *)
StoreAtInvoke ==
    IF ExistedAtStart
    THEN [store0 EXCEPT ![req.taskId] = AppendMessageToTask(store0[req.taskId], req.message)]
    ELSE store0

(* C14: on_message_send consumes exactly one event: the response it        *)
(* returns is the result of the first event the executor enqueued, and the *)
(* further events enqueued during the call are neither applied to the Task *)
(* Store by this call nor reflected in the response.                       *)
C14_SendConsumesFirstEventOnly ==
    (op = "send" /\ pc = "ended" /\ outcome = "returned") =>
        /\ enqueued # <<>>
        /\ event = enqueued[1]
        /\ queue = Tail(enqueued)
        /\ store = ProcessEvent(StoreAtInvoke, enqueued[1])
        /\ responses = <<PrepareResponseObject(
                            ConsumeOneResult(ProcessEvent(StoreAtInvoke, enqueued[1]),
                                             enqueued[1]),
                            {"Task", "Message"})>>

C14_Witness ==
    /\ op = "send"
    /\ pc = "ended"
    /\ outcome = "returned"
    /\ Len(enqueued) >= 3
    /\ enqueued[3].state = "completed"
    /\ store[enqueued[1].taskId].state = "submitted"

(* The number of events the consumer has taken from the queue so far.     *)
Dequeued == Len(enqueued) - Len(queue)

(* C15: in on_message_send_stream each event is turned into a response and *)
(* handed to the caller before the handler takes the next event: when the  *)
(* handler is about to dequeue, every event dequeued so far has its        *)
(* response emitted, at most one dequeued event is ever without response,  *)
(* and the emission of a held event never waits for the producer.          *)
C15_EmitBeforeNextDequeue ==
    (op = "stream" /\ hook # "none") =>
        /\ Dequeued - Len(responses) \in {0, 1}
        /\ pc \in {"consume_all", "suspended"} => Len(responses) = Dequeued
        /\ pc = "yield" => ENABLED StreamYield

C15_Witness ==
    /\ op = "stream"
    /\ pc = "consume_all"
    /\ prod = "running"
    /\ Len(responses) >= 2
    /\ queue = <<>>

(* C16: on_set_task_push_notification_config and                           *)
(* on_get_task_push_notification_config always return the                  *)
(* unsupported-operation error response, whatever the Task Store holds,    *)
(* without invoking the Agent Executor, creating or using a queue, or      *)
(* reading or writing the Task Store.                                      *)
C16_PushConfigUnsupported ==
    op \in {"set_push", "get_push"} =>
        /\ pc = "ended"
        /\ outcome = "returned"
        /\ responses = <<ErrorResponse("UnsupportedOperation")>>
        /\ hook = "none"
        /\ prod = "none"
        /\ queue = <<>>
        /\ enqueued = <<>>
        /\ event = NoEvent
        /\ task = NoTask
        /\ store = store0

C16_Witness ==
    /\ op = "get_push"
    /\ pc = "ended"
    /\ store[req.taskId] # NoTask
    /\ \E t \in TaskIds : store[t] = NoTask

(* The call invoked an executor hook.                                     *)
ReachedExecutor == op \in {"send", "stream", "cancel", "resubscribe"} /\ hook # "none"

(* C17: every send, stream, cancel and resubscribe call that reaches the   *)
(* executor starts it on a new, empty, open Event Queue, and that queue    *)
(* has been closed by the time the call ends, whether the producer         *)
(* finished, raised or was cancelled.                                      *)
C17_FreshQueueClosedByEnd ==
    ReachedExecutor =>
        /\ (prod = "running" /\ ppc = "start") =>
              (queue = <<>> /\ enqueued = <<>> /\ ~closed)
        /\ pc = "ended" => closed

(* C18: for a producer that enqueues finitely many events and then         *)
(* returns, with or without a final status event, the consumer loop of a   *)
(* stream or resubscribe call is never left waiting on an open, empty      *)
(* queue after the producer has returned.                                  *)
C18_NoWaitAfterProducerReturned ==
    (Streaming /\ prod = "done") => ~StreamStuck

(* C19: once the task exists on_resubscribe_to_task drives producer and    *)
(* consumer as on_message_send_stream does: both yield the responses of    *)
(* the enqueued events in order, at the cleanup of either call the two     *)
(* operations would await the producer in the same cases, and at the end   *)
(* the log holds the record that belongs to the producer's outcome.        *)
C19_ResubscribeDrivesAsStream ==
    Streaming =>
        /\ Len(responses) <= Len(enqueued)
        /\ \A i \in 1..Len(responses) :
              responses[i] = PrepareResponseObject(enqueued[i], StreamTypes)
        /\ pc = "cleanup" =>
              AwaitsProducer("stream", prod) = AwaitsProducer("resubscribe", prod)
        /\ pc = "ended" => log = LogRecord(prod, perr)

(* The executor hook of a send or stream request is about to run its      *)
(* first statement.                                                       *)
ExecutorStarts == op \in {"send", "stream"} /\ prod = "running" /\ ppc = "start"

(* C20: on send and stream the handler loads or creates the Task and       *)
(* appends the incoming message to its history before the Agent Executor   *)
(* is invoked: for a task already in the store and for a fresh task id     *)
(* alike, the message is in the persisted task's history when the executor *)
(* starts producing.                                                       *)
C20_MessagePersistedBeforeExecutor ==
    (ExecutorStarts /\ req.taskId # NoId) =>
        /\ store[req.taskId] # NoTask
        /\ \E i \in 1..Len(store[req.taskId].history) :
              store[req.taskId].history[i] = req.message

(* C20 as amended: when the executor starts, a task that was already in    *)
(* the store has the incoming message appended to its persisted history;   *)
(* for a fresh task id, or none, the handler has persisted nothing and     *)
(* hands the executor no task.                                             *)
C20_ExistingTaskPersistedBeforeExecutor ==
    ExecutorStarts =>
        IF ExistedAtStart
        THEN /\ store[req.taskId].history =
                   Append(store0[req.taskId].history, req.message)
             /\ task = store[req.taskId]
             /\ \A t \in TaskIds \ {req.taskId} : store[t] = store0[t]
        ELSE /\ store = store0
             /\ task = NoTask

C20_Witness ==
    /\ ExecutorStarts
    /\ op = "stream"
    /\ ExistedAtStart
    /\ Len(store[req.taskId].history) >= 2
    /\ store[req.taskId].history[Len(store[req.taskId].history)] = req.message

(* The states of the status updates among the events evs, in order.       *)
StatusStates(evs) ==
    LET sel == SelectSeq(evs, LAMBDA e : e.type = "TaskStatusUpdateEvent")
    IN  [i \in 1..Len(sel) |-> sel[i].state]

(* A stream request without task id whose agent reported one working step *)
(* and then completion, and did not raise.                                *)
WorkingThenComplete ==
    /\ op = "stream"
    /\ hook # "none"
    /\ req.taskId = NoId
    /\ perr = <<>>
    /\ StatusStates(enqueued) = <<"working", "completed">>

(* C21: streaming a message with no taskId to an agent that reports one    *)
(* working step and then completion yields exactly two ordered responses,  *)
(* the working status update and then the completed status update, after   *)
(* which the stream closes.                                                *)
C21_TwoResponses ==
    (WorkingThenComplete /\ pc = "ended" /\ exitPath = "normal") =>
        /\ Len(responses) = 2
        /\ responses[1].result.state = "working"
        /\ responses[2].result.state = "completed"

(* C21 as amended: such a stream yields exactly four ordered responses,    *)
(* the snapshot of the new task as submitted, the working status update,   *)
(* the artifact update and the final completed status update, and then     *)
(* ends without taking another event.                                      *)
C21_FourResponses ==
    WorkingThenComplete =>
        /\ Len(enqueued) = 4
        /\ enqueued[1].type = "Task" /\ enqueued[1].state = "submitted"
        /\ enqueued[2].type = "TaskStatusUpdateEvent"
        /\ enqueued[2].state = "working" /\ ~enqueued[2].final
        /\ enqueued[3].type = "TaskArtifactUpdateEvent"
        /\ enqueued[4].type = "TaskStatusUpdateEvent"
        /\ enqueued[4].state = "completed" /\ enqueued[4].final
        /\ \A i \in 1..4 : enqueued[i].taskId = enqueued[1].taskId
        /\ Len(responses) <= 4
        /\ \A i \in 1..Len(responses) : responses[i] = Response(enqueued[i])
        /\ Len(responses) = 4 => pc \in {"suspended", "cleanup", "await_producer", "ended"}
        /\ (pc = "ended" /\ exitPath = "normal") => Len(responses) = 4

C21_Witness ==
    /\ WorkingThenComplete
    /\ pc = "ended"
    /\ exitPath = "normal"
    /\ Len(responses) = 4
    /\ store[enqueued[1].taskId].state = "completed"

(* A send request for which no task existed, answered by                  *)
(* on_message_send with an agent answer that is complete and needs no     *)
(* user input, has returned.                                              *)
SendAnsweredComplete ==
    /\ op = "send"
    /\ InvokeStyle
    /\ ~ExistedAtStart
    /\ item = "complete"
    /\ pc = "ended"
    /\ outcome = "returned"

(* C22: a non-streaming send of a message with no existing task, to an     *)
(* agent whose answer is complete and needs no user input, returns a Task  *)
(* whose status state is completed, whose artifacts hold exactly the one   *)
(* artifact built from the agent's answer and which has no status message; *)
(* that task is what the Task Store holds.                                 *)
C22_SendCompleteReturnsTaskWithArtifact ==
    SendAnsweredComplete =>
        /\ Len(responses) = 1
        /\ responses[1].kind = "success"
        /\ responses[1].result.type = "Task"
        /\ responses[1].result.task.state = "completed"
        /\ Len(responses[1].result.task.artifacts) = 1
        /\ responses[1].result.task.artifacts[1].text = Content
        /\ responses[1].result.task.msg = NoMsg
        /\ store[responses[1].result.task.id] = responses[1].result.task

C22_Witness ==
    /\ SendAnsweredComplete
    /\ req.taskId = NoId
    /\ Len(responses) = 1
    /\ responses[1].result.task.state = "completed"
    /\ \E t \in TaskIds : store0[t] # NoTask

(* The last item of agent.stream was handled by                           *)
(* process_streaming_agent_response and the hook has not failed since.    *)
LastItemProcessed ==
    /\ hook = "on_message_stream"
    /\ executor \in {"weather", "airbnb"}
    /\ item # "none"
    /\ perr = <<>>

(* C23: every TaskStatusUpdateEvent the example executors emit is working, *)
(* input_required or completed and has final=true exactly when its state   *)
(* is input_required or completed (final=false exactly when working); for  *)
(* an item with both require_user_input and is_task_complete set,          *)
(* process_streaming_agent_response emits input_required, final, and no    *)
(* artifact.                                                               *)
C23_FinalFlagFollowsState ==
    /\ \A i \in 1..Len(enqueued) :
          enqueued[i].type = "TaskStatusUpdateEvent" =>
              /\ enqueued[i].state \in {"working", "input_required", "completed"}
              /\ enqueued[i].final <=> enqueued[i].state \in {"input_required", "completed"}
              /\ ~enqueued[i].final <=> enqueued[i].state = "working"
    /\ (LastItemProcessed /\ item = "both") =>
          /\ enqueued # <<>>
          /\ enqueued[Len(enqueued)].type = "TaskStatusUpdateEvent"
          /\ enqueued[Len(enqueued)].state = "input_required"
          /\ enqueued[Len(enqueued)].final
          /\ Len(enqueued) >= 2 =>
                enqueued[Len(enqueued) - 1].type # "TaskArtifactUpdateEvent"

C23_Witness ==
    /\ LastItemProcessed
    /\ item = "both"
    /\ executor = "weather"
    /\ Len(enqueued) >= 3
    /\ enqueued[Len(enqueued) - 1].state = "working"
    /\ enqueued[Len(enqueued)].state = "input_required"

(* C24: the streaming executors enqueue a TaskArtifactUpdateEvent exactly  *)
(* for the items that complete the task, always with append=false and      *)
(* lastChunk=true and always immediately before the final completed        *)
(* TaskStatusUpdateEvent of the same task id; no artifact event precedes a *)
(* working or input_required status update.                                *)
C24_ArtifactOnlyBeforeCompleted ==
    \A i \in 1..Len(enqueued) :
        /\ enqueued[i].type = "TaskArtifactUpdateEvent" =>
              /\ ~enqueued[i].append
              /\ enqueued[i].lastChunk
              /\ i < Len(enqueued)
              /\ enqueued[i + 1].type = "TaskStatusUpdateEvent"
              /\ enqueued[i + 1].state = "completed"
              /\ enqueued[i + 1].final
              /\ enqueued[i + 1].taskId = enqueued[i].taskId
        /\ (enqueued[i].type = "TaskStatusUpdateEvent" /\ enqueued[i].state = "completed") =>
              /\ i > 1
              /\ enqueued[i - 1].type = "TaskArtifactUpdateEvent"
        /\ (enqueued[i].type = "TaskStatusUpdateEvent" /\ enqueued[i].state # "completed"
                /\ i > 1) =>
              enqueued[i - 1].type # "TaskArtifactUpdateEvent"

C24_Witness ==
    /\ hook = "on_message_stream"
    /\ Len(enqueued) = 4
    /\ enqueued[2].state = "working"
    /\ enqueued[3].type = "TaskArtifactUpdateEvent"
    /\ enqueued[4].state = "completed"
    /\ item = "complete"

(* A streaming executor hook has run its head: it has its task.           *)
StreamHeadDone == hook = "on_message_stream" /\ etask # NoTask

(* C25: a streaming executor invoked without an existing task creates the  *)
(* task and enqueues its full snapshot as the first event, before any      *)
(* status or artifact event; invoked with an existing task it enqueues no  *)
(* Task snapshot ahead of the agent's events.                              *)
C25_SnapshotFirstOnlyForNewTask ==
    StreamHeadDone =>
        IF task = NoTask
        THEN /\ enqueued # <<>>
             /\ enqueued[1].type = "Task"
             /\ enqueued[1].task.state = "submitted"
             /\ enqueued[1].task.id = etask.id
             /\ ~ExistedAtStart
             /\ \A i \in 2..Len(enqueued) :
                   enqueued[i].type = "Task" => enqueued[i].task.state = "error"
        ELSE \A i \in 1..Len(enqueued) :
                   enqueued[i].type = "Task" =>
                       /\ enqueued[i].task.state = "error"
                       /\ i = Len(enqueued)

C25_Witness ==
    /\ StreamHeadDone
    /\ task = NoTask
    /\ Len(enqueued) >= 2
    /\ enqueued[1].type = "Task"
    /\ enqueued[2].type = "TaskStatusUpdateEvent"
    /\ \E t \in TaskIds : store0[t] # NoTask

(* C26: every invocation of the executor's on_message_send enqueues        *)
(* exactly one event, a Task, before it returns, on every path: agent      *)
(* success, agent failure, and a message with no parts or a non-text first *)
(* part.                                                                   *)
C26_SendHookEnqueuesOneTask ==
    (InvokeStyle /\ prod \in {"done", "raised"}) =>
        /\ Len(enqueued) = 1
        /\ enqueued[1].type = "Task"

(* The agent raised inside WeatherAgentExecutor.on_message_stream.        *)
WeatherStreamAgentRaised ==
    executor = "weather" /\ hook = "on_message_stream" /\ perr = ErrText

(* The sequence s ends with the sequence e.                               *)
EndsWith(s, e) == Len(e) <= Len(s) /\ SubSeq(s, Len(s) - Len(e) + 1, Len(s)) = e

(* C27: when the agent raises inside WeatherAgentExecutor.on_message_stream *)
(* the executor moves the task to the error state with the error text in   *)
(* its status message, enqueues that Task as its last event behind the     *)
(* events already enqueued, returns without re-raising and enqueues        *)
(* nothing afterwards.                                                     *)
C27_WeatherStreamErrorTaskLast ==
    [][/\ (~WeatherStreamAgentRaised /\ WeatherStreamAgentRaised') =>
             /\ etask'.state = "error"
             /\ EndsWith(etask'.msg.text, perr')
             /\ enqueued' = Append(enqueued, TaskEvent(etask'))
             /\ queue' = Append(queue, TaskEvent(etask'))
             /\ prod' = "done"
       /\ (WeatherStreamAgentRaised /\ nreq' = nreq) =>
             /\ enqueued' = enqueued
             /\ etask' = etask
             /\ prod' = "done"]_vars

C27_Witness ==
    /\ WeatherStreamAgentRaised
    /\ prod = "done"
    /\ Len(enqueued) = 3
    /\ enqueued[1].type = "Task"
    /\ enqueued[2].state = "working"
    /\ enqueued[3].type = "Task"
    /\ enqueued[3].task.state = "error"
    /\ pc = "consume_all"
    /\ Len(responses) = 3

(* ---------------------------------------------------------------------- *)
(* C28: concurrent requests for one task                                  *)
(* ---------------------------------------------------------------------- *)
InHistory(m, t) == \E i \in 1 .. Len(t.history) : t.history[i] = m
Saved(q) == race.rpc[q] = "saved"
SaveIndex(q) == CHOOSE i \in 1 .. Len(race.saves) : race.saves[i] = q
AllSaved == \A q \in Racers : Saved(q)

(* Request p read the task before request q saved it and saved after q.   *)
Overwrote(p, q) ==
    /\ Saved(p) /\ Saved(q)
    /\ race.loadAt[p] < SaveIndex(q)
    /\ SaveIndex(q) < SaveIndex(p)

C29_IdsStableAcrossTurns ==
    \A i \in 1 .. Len(route.sent) :
        /\ route.sent[i].sessionId = route.session_id
        /\ route.sent[i].taskId = route.sent[1].taskId
        /\ route.sent[i].contextId = route.sent[1].contextId

(* ---------------------------------------------------------------------- *)
(* C30: app_lifespan                                                      *)
(* ---------------------------------------------------------------------- *)
LifeDone == life.lpc = "done"
LifeOutcome(o) == IF o = "none" THEN "returned" ELSE o

(* C30: however app_lifespan is left (normal shutdown, an exception or a  *)
(* cancellation while the application runs, a failure while the client    *)
(* starts), the context ends empty, the client's exit was called once if  *)
(* the client was created (entered, where it is entered) and not at all   *)
(* otherwise, and the outcome is the one the body was left with, also     *)
(* when the exit raised.                                                  *)
C30_LifespanCleansUp ==
    LifeDone =>
       /\ life.ctx = {}
       /\ life.exits = IF life.created THEN 1 ELSE 0
       /\ life.result = LifeOutcome(life.origin)

(* The application raised, the exit was called and raised as well.        *)
C30_Witness ==
    /\ LifeDone
    /\ life.origin = "cancelled"
    /\ life.exits = 1
    /\ life.exitRaised

====
